---------------------------- MODULE Spec2Model ----------------------------
(***************************************************************************)
(* Model of the change-aggregation and trend-classification engine of the  *)
(* patch analyzer (src/src/App.tsx): analyzeChangeTrend, compareVersions   *)
(* and the aggregation effect of ChampionHistoryView.                      *)
(*                                                                         *)
(* A JavaScript string is a sequence of UTF-16 code units.  A code unit is *)
(* written as the one-character string itself when it is printable ASCII   *)
(* and as "uXXXX" (its hexadecimal code) otherwise, so "u2192" is the      *)
(* arrow U+2192 and "u0431" a Cyrillic letter.                             *)
(***************************************************************************)
EXTENDS Integers, Sequences, FiniteSets, TLC

VARIABLES
    history,           \* useState<ChampionHistoryEntry[]>([]), App.tsx:876
    aggregatedGroups,  \* useState of the summary groups, App.tsx:877
    effectPending,     \* the [history] effect is scheduled and has not run
    walked,            \* the entries in the order the effect walked them (chronologicalHistory)
    text,              \* argument of analyzeChangeTrend
    trend,             \* its result, "none" before the call
    v1,                \* arguments of compareVersions
    v2,
    cmp,               \* its result, "none" before the call
    failed,            \* the [history] effect raised a TypeError
    entityType,        \* useState("champion"), App.tsx:864
    selected,          \* champion / selectedRune / selectedItem, App.tsx:867-869
    loading,           \* useState(false), App.tsx:878
    loadPending,       \* the history-loading effect is scheduled and has not run
    requests,          \* the invoke(...) promises that have not settled, oldest first
    patch,             \* argument of mapPatchVersion
    converted          \* its result, <<>> before the call

\* the state of the history view that the effect and the functions do not touch
viewVars == <<entityType, selected, loading, loadPending, requests>>

vars == <<history, aggregatedGroups, effectPending, walked, text, trend, v1, v2, cmp,
          failed, entityType, selected, loading, loadPending, requests, patch, converted>>

-----------------------------------------------------------------------------
(* Characters and strings                                                  *)

\* ECMAScript WhiteSpace and LineTerminator code units: the class \s, and
\* what String.prototype.trim removes.
LineTerminators == {"\n", "\r", "u2028", "u2029"}

WhiteSpace ==
    {" ", "\t", "u000B", "\f", "u00A0", "u1680", "u2000", "u2001", "u2002",
     "u2003", "u2004", "u2005", "u2006", "u2007", "u2008", "u2009", "u200A",
     "u202F", "u205F", "u3000", "uFEFF"} \cup LineTerminators

Digits == {"0", "1", "2", "3", "4", "5", "6", "7", "8", "9"}

DigitVal(c) ==
    CASE c = "0" -> 0 [] c = "1" -> 1 [] c = "2" -> 2 [] c = "3" -> 3
      [] c = "4" -> 4 [] c = "5" -> 5 [] c = "6" -> 6 [] c = "7" -> 7
      [] c = "8" -> 8 [] c = "9" -> 9

UpperLetters ==
    <<"A", "B", "C", "D", "E", "F", "G", "H", "I", "J", "K", "L", "M", "N",
      "O", "P", "Q", "R", "S", "T", "U", "V", "W", "X", "Y", "Z",
      "u0410", "u0411", "u0412", "u0413", "u0414", "u0415", "u0416", "u0417",
      "u0418", "u0419", "u041A", "u041B", "u041C", "u041D", "u041E", "u041F",
      "u0420", "u0421", "u0422", "u0423", "u0424", "u0425", "u0426", "u0427",
      "u0428", "u0429", "u042A", "u042B", "u042C", "u042D", "u042E", "u042F",
      "u0401">>

LowerLetters ==
    <<"a", "b", "c", "d", "e", "f", "g", "h", "i", "j", "k", "l", "m", "n",
      "o", "p", "q", "r", "s", "t", "u", "v", "w", "x", "y", "z",
      "u0430", "u0431", "u0432", "u0433", "u0434", "u0435", "u0436", "u0437",
      "u0438", "u0439", "u043A", "u043B", "u043C", "u043D", "u043E", "u043F",
      "u0440", "u0441", "u0442", "u0443", "u0444", "u0445", "u0446", "u0447",
      "u0448", "u0449", "u044A", "u044B", "u044C", "u044D", "u044E", "u044F",
      "u0451">>

LowerChar(c) ==
    IF \E i \in 1..Len(UpperLetters) : UpperLetters[i] = c
    THEN LowerLetters[CHOOSE i \in 1..Len(UpperLetters) : UpperLetters[i] = c]
    ELSE c

\* String.prototype.toLowerCase on Latin and Cyrillic text
toLowerCase(s) == [i \in 1..Len(s) |-> LowerChar(s[i])]

\* String.prototype.includes
includes(s, sub) ==
    \E i \in 0..(Len(s) - Len(sub)) : SubSeq(s, i + 1, i + Len(sub)) = sub

\* first index >= i of s that is not white space (Len(s) + 1 when none)
RECURSIVE SkipWs(_, _)
SkipWs(s, i) ==
    IF i <= Len(s) /\ s[i] \in WhiteSpace THEN SkipWs(s, i + 1) ELSE i

\* last index <= i of s that is not white space (0 when none)
RECURSIVE SkipWsBack(_, _)
SkipWsBack(s, i) ==
    IF i >= 1 /\ s[i] \in WhiteSpace THEN SkipWsBack(s, i - 1) ELSE i

\* String.prototype.trim
trim(s) == SubSeq(s, SkipWs(s, 1), SkipWsBack(s, Len(s)))

\* length of the arrow (?:U+2192|U+21D2|->) that starts at index a, 0 when none
ArrowLenAt(s, a) ==
    IF a > Len(s) THEN 0
    ELSE IF s[a] \in {"u2192", "u21D2"} THEN 1
    ELSE IF s[a] = "-" /\ a + 1 <= Len(s) /\ s[a + 1] = ">" THEN 2
    ELSE 0

RECURSIVE Pow10(_)
Pow10(k) == IF k = 0 THEN 1 ELSE 10 * Pow10(k - 1)

\* index of the last digit of the run of digits that starts at index i
RECURSIVE DigitRunEnd(_, _)
DigitRunEnd(s, i) ==
    IF i + 1 <= Len(s) /\ s[i + 1] \in Digits THEN DigitRunEnd(s, i + 1) ELSE i

\* the number written by the digits s[a..b]
RECURSIVE DigitsValue(_, _, _)
DigitsValue(s, a, b) ==
    IF b < a THEN 0 ELSE 10 * DigitsValue(s, a, b - 1) + DigitVal(s[b])

-----------------------------------------------------------------------------
(* analyzeChangeTrend                                                      *)

W_removed == <<"r", "e", "m", "o", "v", "e", "d">>
W_udaleno == <<"u0443", "u0434", "u0430", "u043B", "u0435", "u043D", "u043E">>
W_bolsheNe == <<"u0431", "u043E", "u043B", "u044C", "u0448", "u0435", " ", "u043D", "u0435">>
W_bolsheNeUmenshaetsya ==
    <<"u0431", "u043E", "u043B", "u044C", "u0448", "u0435", " ", "u043D", "u0435", " ",
      "u0443", "u043C", "u0435", "u043D", "u044C", "u0448", "u0430", "u0435", "u0442",
      "u0441", "u044F">>
W_noLongerReduced ==
    <<"n", "o", " ", "l", "o", "n", "g", "e", "r", " ", "r", "e", "d", "u", "c", "e", "d">>
W_perezaryadka ==
    <<"u043F", "u0435", "u0440", "u0435", "u0437", "u0430", "u0440", "u044F", "u0434",
      "u043A", "u0430">>
W_cooldown == <<"c", "o", "o", "l", "d", "o", "w", "n">>
W_stoimost ==
    <<"u0441", "u0442", "u043E", "u0438", "u043C", "u043E", "u0441", "u0442", "u044C">>
W_cost == <<"c", "o", "s", "t">>
W_mana == <<"m", "a", "n", "a">>
W_many == <<"u043C", "u0430", "u043D", "u044B">>
W_energy == <<"e", "n", "e", "r", "g", "y">>
W_energii == <<"u044D", "u043D", "u0435", "u0440", "u0433", "u0438", "u0438">>
W_zatraty == <<"u0437", "u0430", "u0442", "u0440", "u0430", "u0442", "u044B">>
W_vremya == <<"u0432", "u0440", "u0435", "u043C", "u044F">>
W_time == <<"t", "i", "m", "e">>
W_uvelichen ==
    <<"u0443", "u0432", "u0435", "u043B", "u0438", "u0447", "u0435", "u043D">>
W_usilen == <<"u0443", "u0441", "u0438", "u043B", "u0435", "u043D">>
W_increased == <<"i", "n", "c", "r", "e", "a", "s", "e", "d">>
W_buffed == <<"b", "u", "f", "f", "e", "d">>
W_newEffect == <<"n", "e", "w", " ", "e", "f", "f", "e", "c", "t">>
W_novyiEffekt ==
    <<"u043D", "u043E", "u0432", "u044B", "u0439", " ", "u044D", "u0444", "u0444",
      "u0435", "u043A", "u0442">>
W_umenshen ==
    <<"u0443", "u043C", "u0435", "u043D", "u044C", "u0448", "u0435", "u043D">>
W_oslablen ==
    <<"u043E", "u0441", "u043B", "u0430", "u0431", "u043B", "u0435", "u043D">>
W_decreased == <<"d", "e", "c", "r", "e", "a", "s", "e", "d">>
W_nerfed == <<"n", "e", "r", "f", "e", "d">>

\* isRemoval without the carve-out of the "no longer reduced" exception
isRemoval_noException(lower) ==
    \/ includes(lower, W_udaleno)
    \/ includes(lower, W_removed)
    \/ includes(lower, W_bolsheNe)

\* the condition of the first if: the line says something was removed
isRemoval(lower) ==
    \/ includes(lower, W_udaleno)
    \/ includes(lower, W_removed)
    \/ /\ includes(lower, W_bolsheNe)
       /\ ~includes(lower, W_bolsheNeUmenshaetsya)
       /\ ~includes(lower, W_noLongerReduced)

\* the condition of the second if: the "no longer reduced" pattern
isNoLongerReduced(lower) ==
    includes(lower, W_bolsheNeUmenshaetsya) \/ includes(lower, W_noLongerReduced)

\* isInverse without the Russian vocabulary
isInverse_englishOnly(lower) ==
    \/ includes(lower, W_cooldown) \/ includes(lower, W_cost)
    \/ includes(lower, W_mana) \/ includes(lower, W_energy)
    \/ includes(lower, W_time)

\* const isInverse: cooldown / cost / time context, lower is better
isInverse(lower) ==
    \/ includes(lower, W_perezaryadka) \/ includes(lower, W_cooldown)
    \/ includes(lower, W_stoimost) \/ includes(lower, W_cost)
    \/ includes(lower, W_mana) \/ includes(lower, W_many)
    \/ includes(lower, W_energy) \/ includes(lower, W_energii)
    \/ includes(lower, W_zatraty) \/ includes(lower, W_vremya)
    \/ includes(lower, W_time)

\* text.split(/\s*(?:U+2192|U+21D2|->)\s*/): p is the start of the current part
\* and q the position at which the separator is tried next.
RECURSIVE SplitFrom(_, _, _)
SplitFrom(s, p, q) ==
    IF q > Len(s) THEN <<SubSeq(s, p, Len(s))>>
    ELSE LET a == SkipWs(s, q)
             n == ArrowLenAt(s, a)
         IN  IF n > 0
             THEN <<SubSeq(s, p, q - 1)>>
                    \o SplitFrom(s, SkipWs(s, a + n), SkipWs(s, a + n))
             ELSE SplitFrom(s, p, q + 1)

parts(s) == SplitFrom(s, 1, 1)

\* A value of parseVal: NaN, or the decimal number num / 10^exp.  The sum of
\* decimal literals is kept exact; the code adds IEEE doubles, whose sum orders
\* two sides as the exact sums do whenever the exact sums differ.
NaN == [nan |-> TRUE, num |-> 0, exp |-> 0]

Dec(n, e) == [nan |-> FALSE, num |-> n, exp |-> e]

DecAdd(a, b) ==
    IF a.exp >= b.exp
    THEN Dec(a.num + b.num * Pow10(a.exp - b.exp), a.exp)
    ELSE Dec(a.num * Pow10(b.exp - a.exp) + b.num, b.exp)

DecLess(a, b) == a.num * Pow10(b.exp) < b.num * Pow10(a.exp)

isNaN(x) == x.nan

\* str.match(/[-+]?\d+(?:[.,]\d+)?/g) mapped through parseFloat and summed:
\* i is the position the next match is searched from, acc the sum so far
\* (NaN while no number has been found).
RECURSIVE SumNumbers(_, _, _)
SumNumbers(s, i, acc) ==
    IF i > Len(s) THEN acc
    ELSE LET signed == s[i] \in {"-", "+"} /\ i + 1 <= Len(s) /\ s[i + 1] \in Digits
             d0 == IF signed THEN i + 1 ELSE i
         IN  IF ~signed /\ s[i] \notin Digits
             THEN SumNumbers(s, i + 1, acc)
             ELSE LET d1 == DigitRunEnd(s, d0)
                      frac == /\ d1 + 2 <= Len(s)
                              /\ s[d1 + 1] \in {".", ","}
                              /\ s[d1 + 2] \in Digits
                      f1 == IF frac THEN DigitRunEnd(s, d1 + 2) ELSE d1
                      k == IF frac THEN f1 - (d1 + 1) ELSE 0
                      mag == DigitsValue(s, d0, d1) * Pow10(k)
                               + (IF frac THEN DigitsValue(s, d1 + 2, f1) ELSE 0)
                      val == Dec(IF signed /\ s[i] = "-" THEN 0 - mag ELSE mag, k)
                 IN  SumNumbers(s, f1 + 1, IF isNaN(acc) THEN val ELSE DecAdd(acc, val))

parseVal(str) == SumNumbers(str, 1, NaN)

\* the two keyword scans at the end of analyzeChangeTrend
keywordUp(lower) ==
    \/ includes(lower, W_uvelichen) \/ includes(lower, W_usilen)
    \/ includes(lower, W_increased) \/ includes(lower, W_buffed)
    \/ includes(lower, W_newEffect) \/ includes(lower, W_novyiEffekt)

keywordDown(lower) ==
    \/ includes(lower, W_umenshen) \/ includes(lower, W_oslablen)
    \/ includes(lower, W_decreased) \/ includes(lower, W_nerfed)
    \/ includes(lower, W_removed) \/ includes(lower, W_udaleno)

\* the numeric path taken on the first two parts of a line with more arrows
numericTrend_firstTwoParts(t, inverse) ==
    LET ps == SplitFrom(t, 1, 1) IN
    IF Len(ps) < 2 THEN "none"
    ELSE LET from == SumNumbers(ps[1], 1, NaN)
             to == SumNumbers(ps[2], 1, NaN)
         IN  IF from.nan \/ to.nan THEN "none"
             ELSE IF DecLess(from, to) THEN (IF inverse THEN "down" ELSE "up")
             ELSE IF DecLess(to, from) THEN (IF inverse THEN "up" ELSE "down")
             ELSE "none"

\* the numeric path: "up" / "down" when it returns, "none" when it falls through
numericTrend(t, inverse) ==
    LET ps == parts(t) IN
    IF Len(ps) # 2 THEN "none"
    ELSE LET from == parseVal(ps[1])
             to == parseVal(ps[2])
         IN  IF isNaN(from) \/ isNaN(to) THEN "none"
             ELSE IF DecLess(from, to) THEN (IF inverse THEN "down" ELSE "up")
             ELSE IF DecLess(to, from) THEN (IF inverse THEN "up" ELSE "down")
             ELSE "none"

analyzeChangeTrend(t) ==
    LET lower == toLowerCase(t) IN
    IF isRemoval(lower) THEN "down"
    ELSE IF isNoLongerReduced(lower) THEN "up"
    ELSE LET n == numericTrend(t, isInverse(lower)) IN
         IF n # "none" THEN n
         ELSE IF keywordUp(lower) THEN "up"
         ELSE IF keywordDown(lower) THEN "down"
         ELSE "neutral"

-----------------------------------------------------------------------------
(* compareVersions                                                         *)

\* s.split(sep) for a one-character separator: cur is the part being read
RECURSIVE SplitOn(_, _, _, _)
SplitOn(s, sep, i, cur) ==
    IF i > Len(s) THEN <<cur>>
    ELSE IF s[i] = sep THEN <<cur>> \o SplitOn(s, sep, i + 1, <<>>)
    ELSE SplitOn(s, sep, i + 1, Append(cur, s[i]))

split(s, sep) == SplitOn(s, sep, 1, <<>>)

\* parseInt(n, 10): leading white space is skipped, then an optional sign and
\* the longest run of digits; NaN when there is no digit there.
parseInt(n) ==
    LET i == SkipWs(n, 1)
        signed == i <= Len(n) /\ n[i] \in {"-", "+"}
        d0 == IF signed THEN i + 1 ELSE i
    IN  IF d0 > Len(n) \/ n[d0] \notin Digits THEN NaN
        ELSE LET mag == DigitsValue(n, d0, DigitRunEnd(n, d0))
             IN  Dec(IF signed /\ n[i] = "-" THEN 0 - mag ELSE mag, 0)

\* const parse = v => v.split('.').map(n => parseInt(n, 10)).filter(n => !isNaN(n))
parse(v) ==
    LET segs == split(v, ".")
        mapped == [i \in 1..Len(segs) |-> parseInt(segs[i])]
    IN  SelectSeq(mapped, LAMBDA n : ~isNaN(n))

\* p[i] without the "|| 0": a missing segment is below every segment
SegmentOrZero_missingLow(p, i) == IF i <= Len(p) THEN p[i].num ELSE 0 - 1

\* p[i] || 0 (the index i is 0-based in the code, 1-based here)
SegmentOrZero(p, i) == IF i <= Len(p) THEN p[i].num ELSE 0

Max(a, b) == IF a >= b THEN a ELSE b

\* the for loop of compareVersions from index i on
RECURSIVE CompareFrom(_, _, _)
CompareFrom(p1, p2, i) ==
    IF i > Max(Len(p1), Len(p2)) THEN 0
    ELSE LET n1 == SegmentOrZero(p1, i)
             n2 == SegmentOrZero(p2, i)
         IN  IF n1 # n2 THEN n1 - n2 ELSE CompareFrom(p1, p2, i + 1)

compareVersions(a, b) == CompareFrom(parse(a), parse(b), 1)

-----------------------------------------------------------------------------
(* mapPatchVersion (src/src/lib/utils.ts)                                  *)

\* patch.match(/^(\d{2})\.(\d{2})/) is not null: the string starts with two
\* digits, a dot and two digits
patchMatch(p) ==
    /\ Len(p) >= 5
    /\ p[1] \in Digits /\ p[2] \in Digits
    /\ p[3] = "."
    /\ p[4] \in Digits /\ p[5] \in Digits

DigitChar(d) == CHOOSE c \in Digits : DigitVal(c) = d

\* the number n as the template literal writes it
RECURSIVE numberToString(_)
numberToString(n) ==
    IF n < 0 THEN <<"-">> \o numberToString(0 - n)
    ELSE IF n < 10 THEN <<DigitChar(n)>>
    ELSE Append(numberToString(n \div 10), DigitChar(n % 10))

\* the game major without the floor at 0
gameMajor_noFloor(major) == major - 10

\* Math.max(0, major - 10)
gameMajor(major) == Max(0, major - 10)

mapPatchVersion(p) ==
    IF ~patchMatch(p) THEN p
    ELSE LET major == parseInt(SubSeq(p, 1, 2))
             minor == SubSeq(p, 4, 5)
         IN  IF isNaN(major) THEN p
             ELSE numberToString(gameMajor(major.num)) \o <<".">> \o minor \o <<".", "0">>

-----------------------------------------------------------------------------
(* The aggregation effect of ChampionHistoryView                           *)

\* JavaScript null.  Titles and icons are opaque strings: the effect only
\* tests them for truthiness and equality.
Null == "<null>"

Falsy(x) == x = Null \/ x = ""

\* null in a field that holds an array.  TLC compares a sequence with sequences
\* of the same kind only, so null is the sequence of one element that no array
\* of the program holds: the line made of the code unit Null, and the block
\* whose fields are all null.
NullChanges == <<<<Null>>>>

NullDetails == <<[title |-> Null, icon_url |-> Null, changes |-> NullChanges]>>

\* the default key "Основные показатели" of a block without a title
DefaultTitle == "Osnovnye pokazateli"

\* [...history].sort((a, b) => compareVersions(a.patch_version, b.patch_version)):
\* Array.prototype.sort is stable; e goes behind every entry that does not
\* compare greater than it.
\* a sort that is not stable: e goes in front of the entries it compares
\* equal to
RECURSIVE InsertSorted_unstable(_, _)
InsertSorted_unstable(sorted, e) ==
    IF sorted = <<>> THEN <<e>>
    ELSE LET last == sorted[Len(sorted)] IN
         IF compareVersions(last.patch_version, e.patch_version) < 0
         THEN Append(sorted, e)
         ELSE Append(InsertSorted_unstable(SubSeq(sorted, 1, Len(sorted) - 1), e), last)

RECURSIVE InsertSorted(_, _)
InsertSorted(sorted, e) ==
    IF sorted = <<>> THEN <<e>>
    ELSE LET last == sorted[Len(sorted)] IN
         IF compareVersions(last.patch_version, e.patch_version) <= 0
         THEN Append(sorted, e)
         ELSE Append(InsertSorted(SubSeq(sorted, 1, Len(sorted) - 1), e), last)

RECURSIVE SortFrom(_, _, _)
SortFrom(h, i, sorted) ==
    IF i > Len(h) THEN sorted ELSE SortFrom(h, i + 1, InsertSorted(sorted, h[i]))

\* the walk without the sort: the releases in the order of the input
chronologicalHistory_inputOrder(h) == h

chronologicalHistory(h) == SortFrom(h, 1, <<>>)

\* history.sort(...) without the copy: the array of the state is sorted in place
historyAfterSort_inPlace(h) == SortFrom(h, 1, <<>>)

\* the array of the state after [...history].sort(...): the spread makes a
\* copy and the sort reorders the copy
historyAfterSort(h) == h

\* the key with "??" in place of "||": only a null title gets the default
GroupKey_nullOnly(d) == IF d.title = Null THEN DefaultTitle ELSE d.title

\* const key = d.title || "Основные показатели"
GroupKey(d) == IF Falsy(d.title) THEN DefaultTitle ELSE d.title

\* groups.has(key); the Map is the sequence of its entries in insertion order
GroupsHas(groups, key) == \E i \in 1..Len(groups) : groups[i].key = key

GroupIndex(groups, key) == CHOOSE i \in 1..Len(groups) : groups[i].key = key

\* AddBlock with a Map that puts a new key in front of the others
AddBlock_newKeyFirst(groups, d) ==
    LET key == IF Falsy(d.title) THEN DefaultTitle ELSE d.title
        has == \E i \in 1..Len(groups) : groups[i].key = key
        g1 == IF has THEN groups
              ELSE <<[key |-> key,
                      icon |-> IF Falsy(d.icon_url) THEN Null ELSE d.icon_url,
                      rawChanges |-> <<>>]>> \o groups
        k == CHOOSE i \in 1..Len(g1) : g1[i].key = key
    IN  IF d.changes # NullChanges THEN [g1 EXCEPT ![k].rawChanges = @ \o d.changes]
        ELSE g1

\* the walk without the test of d.changes
hasChanges_unguarded(d) == TRUE

\* if (d.changes): an array, also an empty one, is truthy
hasChanges(d) == d.changes # NullChanges

\* the body of h.change.details.forEach(d => ...)
AddBlock(groups, d) ==
    LET key == GroupKey(d)
        g1 == IF GroupsHas(groups, key) THEN groups
              ELSE Append(groups, [key |-> key,
                                   icon |-> IF Falsy(d.icon_url) THEN Null ELSE d.icon_url,
                                   rawChanges |-> <<>>])
        k == GroupIndex(g1, key)
    IN  IF hasChanges(d) THEN [g1 EXCEPT ![k].rawChanges = @ \o d.changes]
        ELSE g1

RECURSIVE AddBlocks(_, _, _)
AddBlocks(groups, details, j) ==
    IF j > Len(details) THEN groups
    ELSE AddBlocks(AddBlock(groups, details[j]), details, j + 1)

\* if (h.change.details)
hasDetails(h) == h.details # NullDetails

\* chronologicalHistory.forEach(h => ...)
RECURSIVE WalkFrom(_, _, _)
WalkFrom(chron, i, groups) ==
    IF i > Len(chron) THEN groups
    ELSE WalkFrom(chron, i + 1,
                  IF hasDetails(chron[i]) THEN AddBlocks(groups, chron[i].details, 1)
                  ELSE groups)

buildGroups(h) == WalkFrom(chronologicalHistory(h), 1, <<>>)

\* "." of a regular expression: any code unit but a line terminator
AllDot(s, a, b) == \A i \in a..b : s[i] \notin LineTerminators

NoMatch == [ok |-> FALSE, name |-> <<>>, old |-> <<>>, new |-> <<>>]

\* (.*?)\s*(?:arrow)\s*(.*)$ tried at p: the lazy group takes the fewest
\* characters j such that the rest matches; the greedy \s* before (.*) takes the
\* whole run of white space.  The result is j, or -1 when nothing matches.
RECURSIVE OldLength(_, _, _)
OldLength(s, p, j) ==
    LET a == SkipWs(s, p + j)
        n == ArrowLenAt(s, a)
    IN  IF n > 0 /\ AllDot(s, SkipWs(s, a + n), Len(s)) THEN j
        ELSE IF p + j > Len(s) \/ s[p + j] \in LineTerminators THEN 0 - 1
        ELSE OldLength(s, p, j + 1)

\* the separator (?::\s*|\s+) ends before p; it is greedy and gives characters
\* back down to pmin.
RECURSIVE TrySeparator(_, _, _, _)
TrySeparator(s, n, p, pmin) ==
    IF p < pmin THEN NoMatch
    ELSE LET j == OldLength(s, p, 0) IN
         IF j >= 0
         THEN LET a == SkipWs(s, p + j)
                  e == a + ArrowLenAt(s, a)
              IN  [ok |-> TRUE,
                   name |-> SubSeq(s, 1, n),
                   old |-> SubSeq(s, p, p + j - 1),
                   new |-> SubSeq(s, SkipWs(s, e), Len(s))]
         ELSE TrySeparator(s, n, p - 1, pmin)

\* ^(.+?) with n characters, n as small as possible
RECURSIVE MatchName(_, _)
MatchName(s, n) ==
    IF n >= Len(s) \/ s[n] \in LineTerminators THEN NoMatch
    ELSE LET m == IF s[n + 1] = ":"
                  THEN TrySeparator(s, n, SkipWs(s, n + 2), n + 2)
                  ELSE IF s[n + 1] \in WhiteSpace
                  THEN TrySeparator(s, n, SkipWs(s, n + 1), n + 2)
                  ELSE NoMatch
         IN  IF m.ok THEN m ELSE MatchName(s, n + 1)

\* item.text.match(/^(.+?)(?::\s*|\s+)(.*?)\s*(?:U+2192|U+21D2|->)\s*(.*)$/)
statMatch(s) == MatchName(s, 1)

ChainsHas(chains, name) == \E i \in 1..Len(chains) : chains[i].name = name

ChainIndex(chains, name) == CHOOSE i \in 1..Len(chains) : chains[i].name = name

\* MergeLine that restarts the chain at every occurrence of the stat name
MergeLine_restartChain(acc, line) ==
    LET match == statMatch(line) IN
    IF match.ok
    THEN LET statName == trim(match.name)
             oldVal == trim(match.old)
             newVal == trim(match.new)
         IN  IF ~ChainsHas(acc.statChains, statName)
             THEN [acc EXCEPT !.statChains =
                      Append(@, [name |-> statName, start |-> oldVal,
                                 end |-> newVal, template |-> line])]
             ELSE [acc EXCEPT
                     !.statChains[ChainIndex(acc.statChains, statName)].start = oldVal,
                     !.statChains[ChainIndex(acc.statChains, statName)].end = newVal]
    ELSE [acc EXCEPT !.otherChanges = Append(@, line)]

\* the body of value.rawChanges.forEach(item => ...): acc holds statChains
\* (a Map, in insertion order) and otherChanges
MergeLine(acc, line) ==
    LET match == statMatch(line) IN
    IF match.ok
    THEN LET statName == trim(match.name)
             oldVal == trim(match.old)
             newVal == trim(match.new)
         IN  IF ~ChainsHas(acc.statChains, statName)
             THEN [acc EXCEPT !.statChains =
                      Append(@, [name |-> statName, start |-> oldVal,
                                 end |-> newVal, template |-> line])]
             ELSE [acc EXCEPT !.statChains[ChainIndex(acc.statChains, statName)].end = newVal]
    ELSE [acc EXCEPT !.otherChanges = Append(@, line)]

RECURSIVE MergeFrom(_, _, _)
MergeFrom(rawChanges, i, acc) ==
    IF i > Len(rawChanges) THEN acc
    ELSE MergeFrom(rawChanges, i + 1, MergeLine(acc, rawChanges[i]))

mergeChains(rawChanges) ==
    MergeFrom(rawChanges, 1, [statChains |-> <<>>, otherChanges |-> <<>>])

\* const separator = val.template.includes(':') ? ': ' : ' '
separator(template) == IF includes(template, <<":">>) THEN <<":", " ">> ELSE <<" ">>

\* chainLine that repeats the first line seen for the stat
chainLine_template(c) == c.template

\* `${name}${separator}${val.start} U+2192 ${val.end}`
chainLine(c) ==
    c.name \o separator(c.template) \o c.start \o <<" ", "u2192", " ">> \o c.end

\* Array.from(new Set(otherChanges)): the first occurrence of each string
RECURSIVE UniqueFrom(_, _, _)
UniqueFrom(s, i, acc) ==
    IF i > Len(s) THEN acc
    ELSE UniqueFrom(s, i + 1,
                    IF \E k \in 1..Len(acc) : acc[k] = s[i] THEN acc ELSE Append(acc, s[i]))

\* uniqueOthers without the Set
uniqueOthers_keepAll(otherChanges) == otherChanges

uniqueOthers(otherChanges) == UniqueFrom(otherChanges, 1, <<>>)

\* computedChanges with the passthrough lines pushed before the chains
computedChanges_othersFirst(rawChanges) ==
    LET m == mergeChains(rawChanges) IN
    uniqueOthers(m.otherChanges)
        \o [i \in 1..Len(m.statChains) |-> chainLine(m.statChains[i])]

computedChanges(rawChanges) ==
    LET m == mergeChains(rawChanges) IN
    [i \in 1..Len(m.statChains) |-> chainLine(m.statChains[i])]
        \o uniqueOthers(m.otherChanges)

\* the emission test with an off-by-one threshold
emitGroup_moreThanOne(changes) == Len(changes) > 1

\* if (computedChanges.length > 0) finalGroups.push(...)
emitGroup(changes) == Len(changes) > 0

\* groups.forEach((value, key) => ...)
RECURSIVE FinalFrom(_, _, _)
FinalFrom(groups, i, finalGroups) ==
    IF i > Len(groups) THEN finalGroups
    ELSE LET changes == computedChanges(groups[i].rawChanges) IN
         FinalFrom(groups, i + 1,
                   IF emitGroup(changes)
                   THEN Append(finalGroups, [title |-> groups[i].key,
                                             icon |-> groups[i].icon,
                                             changes |-> changes])
                   ELSE finalGroups)

\* the raw changes of the groups up to the i-th, one after the other
RECURSIVE RawUpTo(_, _)
RawUpTo(groups, i) ==
    IF i = 0 THEN <<>> ELSE RawUpTo(groups, i - 1) \o groups[i].rawChanges

\* aggregate with statChains and otherChanges declared outside groups.forEach:
\* every group goes on from the chains of the groups before it
aggregate_sharedChains(h) ==
    LET groups == buildGroups(h) IN
    FinalFrom([i \in 1..Len(groups) |->
                 [groups[i] EXCEPT !.rawChanges = RawUpTo(groups, i)]], 1, <<>>)

\* the summary the effect hands to setAggregatedGroups
aggregate(h) == FinalFrom(buildGroups(h), 1, <<>>)

\* null.forEach(...) raises a TypeError: the walk raises in a block when
\* d.changes.forEach is reached with changes null
BlockThrows(d) == hasChanges(d) /\ d.changes = NullChanges

\* the walk raises in a release: h.change.details.forEach is reached with
\* details null, or the body raises in one of the blocks
EntryThrows(h) ==
    hasDetails(h) /\ (\/ h.details = NullDetails
                      \/ \E j \in 1..Len(h.details) : BlockThrows(h.details[j]))

\* the effect body raises instead of reaching setAggregatedGroups
effectThrows(h) == \E i \in 1..Len(h) : EntryThrows(h[i])

-----------------------------------------------------------------------------
(* Inputs                                                                  *)

\* change lines
L_X12 == <<"X", ":", " ", "1", " ", "u2192", " ", "2">>              \* "X: 1 -> 2" with U+2192
L_X23 == <<"X", ":", " ", "2", " ", "-", ">", " ", "3">>             \* "X: 2 -> 3"
L_X31 == <<"X", " ", "3", " ", "u21D2", " ", "1">>                   \* "X 3 => 1" with U+21D2
L_AB12 == <<"A", " ", "B", ":", " ", "1", " ", "u2192", " ", "2">>   \* "A B: 1 -> 2"
L_AC34 == <<"A", " ", "C", ":", " ", "3", " ", "u2192", " ", "4">>   \* "A C: 3 -> 4"
L_new == <<"n", "e", "w">>                                           \* "new"
L_ab == <<"a", ":", "b">>                                            \* "a:b"
L_empty == <<>>                                                      \* ""
L_Xr4 == <<"X", " ", "1", ":", "2", " ", "u2192", " ", "4">>         \* "X 1:2 -> 4"

Block(title, icon, changes) == [title |-> title, icon_url |-> icon, changes |-> changes]

Entry(version, details) == [patch_version |-> version, details |-> details]

\* h.change.details of one release
DetailsSet ==
    { <<>>,
      <<Block("Q", "i1", <<L_X12>>)>>,
      <<Block("Q", "i2", <<L_X23, L_new>>)>>,
      <<Block("Q", Null, <<L_new, L_X31>>)>>,
      <<Block(Null, Null, <<L_X12, L_ab>>)>>,
      <<Block("", "i1", <<L_Xr4>>)>>,
      <<Block("Q", Null, <<>>)>>,
      <<Block("Q", "i1", <<L_empty>>)>>,
      <<Block("Q", Null, <<L_AB12>>)>>,
      <<Block("Q", Null, <<L_AC34, L_ab>>)>>,
      <<Block("W", "i2", <<L_X31>>), Block("Q", Null, <<L_ab, L_new>>)>> }

V_9_1 == <<"9", ".", "1">>
V_10_1 == <<"1", "0", ".", "1">>
V_1 == <<"1">>
V_1_0 == <<"1", ".", "0">>
V_0 == <<"0">>

HistoryVersions == {V_9_1, V_10_1, V_1, V_1_0}

Entries == {Entry(v, d) : v \in HistoryVersions, d \in DetailsSet}

\* the longest history
MaxEntries == 2

Histories == UNION {[1..n -> Entries] : n \in 0..MaxEntries}

\* histories with absent parts: details null, changes null, no blocks, no
\* lines, empty and non-numeric lines, release identifiers without a number
RobustVersions == {<<>>, <<"a", "b", "c">>, <<"1", ".", "x">>, V_1}

RobustDetails ==
    { NullDetails,
      <<>>,
      <<Block(Null, Null, NullChanges)>>,
      <<Block("Q", "i1", <<L_empty, L_new>>)>>,
      <<Block("Q", Null, <<L_X12>>), Block("Q", "i1", NullChanges), Block("W", Null, <<>>)>> }

RobustEntries == {Entry(v, d) : v \in RobustVersions, d \in RobustDetails}

RobustHistories == UNION {[1..n -> RobustEntries] : n \in 0..MaxEntries}

RobustTexts == {<<>>, L_new, <<"u2192">>, <<"-", ">", " ", "x">>}

\* the entities of the pickers and what the backend returns for them
EntityTypes == {"champion", "rune", "item"}

EntityNames == {"A", "B"}

H_A == <<Entry(V_10_1, <<Block("Q", "i2", <<L_X23, L_new>>)>>),
         Entry(V_9_1, <<Block("Q", "i1", <<L_X12>>)>>)>>

H_B == <<Entry(V_1, <<Block("W", Null, <<L_X31>>)>>)>>

\* the history the command get_<type>_history resolves with
BackendHistory(r) ==
    IF r.type = "item" THEN <<>> ELSE IF r.name = "A" THEN H_A ELSE H_B

\* the most requests in flight at once
MaxRequests == 2

\* patch-notes versions handed to mapPatchVersion: a major, a separator, a
\* minor and a tail
PatchMajors ==
    { <<"2", "5">>, <<"0", "9">>, <<"1", "0">>, <<"0", "0">>, <<"9", "9">>, <<"1", "a">>,
      <<" ", "5">>, <<"5">> }

PatchSeparators == {<<".">>, <<",">>, <<>>}

PatchMinors == {<<"2", "4">>, <<"0", "1">>, <<"1">>, <<"x", "1">>}

PatchTails == {<<>>, <<".", "1">>, <<"b">>, <<"9">>}

PatchStrings ==
    {a \o b \o c \o d :
       a \in PatchMajors, b \in PatchSeparators, c \in PatchMinors, d \in PatchTails}

\* release identifiers handed to compareVersions
VersionStrings ==
    { V_0, V_1, V_1_0, V_9_1, V_10_1,
      <<"9">>, <<"1", "0">>, <<"2">>,
      <<"1", ".", "0", ".", "0">>, <<"1", ".", "2", ".", "3">>,
      <<"9", ".", "1", "0">>, <<"0", ".", "5">>,
      <<>>, <<"a", "b", "c">>, <<"x", ".", "5">>, <<"1", ".", "x">>,
      <<"1", ".", ".", "2">>, <<"1", ".", "5", "a">>, <<" ", "7">>, <<"-", "1">> }

\* lines handed to analyzeChangeTrend: a subject, a phrase and a tail
Subjects ==
    { <<"D", "a", "m", "a", "g", "e">>,
      <<"S", "l", "o", "w">>,
      <<"C", "o", "o", "l", "d", "o", "w", "n">>,
      <<"C", "O", "O", "L", "D", "O", "W", "N">>,
      <<"M", "a", "n", "a", " ", "c", "o", "s", "t">>,
      <<"u041F", "u0435", "u0440", "u0435", "u0437", "u0430", "u0440", "u044F", "u0434",
        "u043A", "u0430">>,
      <<"u0412", "u0440", "u0435", "u043C", "u044F">> }

Phrases ==
    { <<>>,
      <<" ", "r", "e", "m", "o", "v", "e", "d">>,
      <<" ", "R", "E", "M", "O", "V", "E", "D">>,
      <<" ", "u0423", "u0434", "u0430", "u043B", "u0435", "u043D", "u043E">>,
      <<" ", "n", "o", " ", "l", "o", "n", "g", "e", "r", " ", "r", "e", "d", "u", "c",
        "e", "d">>,
      <<" ", "N", "o", " ", "L", "o", "n", "g", "e", "r", " ", "R", "e", "d", "u", "c",
        "e", "d">>,
      <<" ", "u0431", "u043E", "u043B", "u044C", "u0448", "u0435", " ", "u043D", "u0435",
        " ", "u0443", "u043C", "u0435", "u043D", "u044C", "u0448", "u0430", "u0435",
        "u0442", "u0441", "u044F">>,
      <<" ", "u0411", "u043E", "u043B", "u044C", "u0448", "u0435", " ", "u041D", "u0415",
        " ", "u0423", "u043C", "u0435", "u043D", "u044C", "u0448", "u0430", "u0435",
        "u0442", "u0441", "u044F">>,
      <<" ", "u0431", "u043E", "u043B", "u044C", "u0448", "u0435", " ", "u043D", "u0435">>,
      <<" ", "n", "o", " ", "l", "o", "n", "g", "e", "r">>,
      <<" ", "i", "n", "c", "r", "e", "a", "s", "e", "d">>,
      <<" ", "d", "e", "c", "r", "e", "a", "s", "e", "d">> }

Tails ==
    { <<>>,
      <<" ", "b", "y", " ", "t", "e", "n", "a", "c", "i", "t", "y">>,
      <<" ", "r", "e", "m", "o", "v", "e", "d">>,
      <<":", " ", "1", "0", " ", "u2192", " ", "8">>,
      <<":", " ", "8", " ", "u2192", " ", "1", "0">>,
      <<":", " ", "1", "0", " ", "u2192", " ", "1", "0">>,
      <<" ", "5", "/", "1", "0", " ", "u21D2", " ", "1", "0", "/", "2", "0">>,
      <<":", " ", "1", ".", "5", " ", "-", ">", " ", "1", ",", "2", "5">>,
      <<":", " ", "+", "5", " ", "u2192", " ", "-", "5">>,
      <<":", " ", "1", "0", " ", "u2192", " ", "8", " ", "u2192", " ", "6">>,
      <<":", " ", "x", " ", "u2192", " ", "8">>,
      <<":", " ", "8", " ", "u2192">> }

TrendTexts == {s \o p \o t : s \in Subjects, p \in Phrases, t \in Tails}

-----------------------------------------------------------------------------
(* Actions                                                                 *)

\* useEffect(() => { ... }, [history]): the whole effect body
AggregationEffect ==
    /\ effectPending
    /\ effectPending' = FALSE
    /\ IF Len(history) = 0
       THEN UNCHANGED <<history, aggregatedGroups, walked, failed>>
       ELSE IF effectThrows(history)
       THEN /\ failed' = TRUE
            /\ history' = historyAfterSort(history)
            /\ UNCHANGED <<aggregatedGroups, walked>>
       ELSE /\ aggregatedGroups' = aggregate(history)
            /\ walked' = chronologicalHistory(history)
            /\ history' = historyAfterSort(history)
            /\ UNCHANGED failed
    /\ UNCHANGED <<text, trend, v1, v2, cmp>>
    /\ UNCHANGED viewVars
    /\ UNCHANGED <<patch, converted>>

\* const trend = analyzeChangeTrend(change)
Classify ==
    /\ trend = "none"
    /\ trend' = analyzeChangeTrend(text)
    /\ UNCHANGED <<history, aggregatedGroups, effectPending, walked, text, v1, v2, cmp>>
    /\ UNCHANGED <<failed, viewVars>>
    /\ UNCHANGED <<patch, converted>>

\* one call compareVersions(v1, v2); cmp holds the returned number
Compare ==
    /\ cmp = <<>>
    /\ cmp' = <<compareVersions(v1, v2)>>
    /\ UNCHANGED <<history, aggregatedGroups, effectPending, walked, text, trend, v1, v2>>
    /\ UNCHANGED <<failed, viewVars>>
    /\ UNCHANGED <<patch, converted>>

\* one call mapPatchVersion(patch); converted holds the returned string
MapPatch ==
    /\ converted = <<>>
    /\ converted' = <<mapPatchVersion(patch)>>
    /\ UNCHANGED <<history, aggregatedGroups, effectPending, walked, text, trend, v1, v2,
                   cmp, failed, viewVars, patch>>

\* React runs the effects of a commit before it renders the next update, so an
\* event finds no effect waiting.
EffectsFlushed == ~effectPending /\ ~loadPending

\* a picker's onSelect: setChampion(c) / setSelectedRune(r) / setSelectedItem(it)
SelectEntity(n) ==
    /\ EffectsFlushed
    /\ n # selected
    /\ Len(requests) < MaxRequests
    /\ selected' = n
    /\ loadPending' = TRUE
    /\ UNCHANGED <<history, aggregatedGroups, effectPending, walked, text, trend, v1, v2,
                   cmp, failed, entityType, loading, requests>>
    /\ UNCHANGED <<patch, converted>>

\* onClick of an entity-type tab
TabClick(t) ==
    /\ EffectsFlushed
    /\ entityType' = t
    /\ history' = <<>>
    /\ effectPending' = TRUE
    /\ selected' = Null
    /\ loadPending' = (t # entityType \/ selected # Null)
    /\ UNCHANGED <<aggregatedGroups, walked, text, trend, v1, v2, cmp, failed, loading,
                   requests>>
    /\ UNCHANGED <<patch, converted>>

\* useEffect(() => { ... }, [entityType, champion, selectedRune, selectedItem])
LoadEffect ==
    /\ loadPending
    /\ loadPending' = FALSE
    /\ IF selected = Null
       THEN /\ history' = <<>>
            /\ effectPending' = TRUE
            /\ UNCHANGED <<loading, requests>>
       ELSE /\ loading' = TRUE
            /\ requests' = Append(requests, [type |-> entityType, name |-> selected])
            /\ UNCHANGED <<history, effectPending>>
    /\ UNCHANGED <<aggregatedGroups, walked, text, trend, v1, v2, cmp, failed, entityType,
                   selected>>
    /\ UNCHANGED <<patch, converted>>

\* the promises but the i-th
Settle(i) == SubSeq(requests, 1, i - 1) \o SubSeq(requests, i + 1, Len(requests))

\* the i-th promise resolves: .then(setHistory), .finally(() => setLoading(false))
RequestResolved(i) ==
    /\ EffectsFlushed
    /\ history' = BackendHistory(requests[i])
    /\ effectPending' = TRUE
    /\ loading' = FALSE
    /\ requests' = Settle(i)
    /\ UNCHANGED <<aggregatedGroups, walked, text, trend, v1, v2, cmp, failed, entityType,
                   selected, loadPending>>
    /\ UNCHANGED <<patch, converted>>

\* the i-th promise rejects: .catch(e => toast.error(...)), .finally(...)
RequestRejected(i) ==
    /\ EffectsFlushed
    /\ loading' = FALSE
    /\ requests' = Settle(i)
    /\ UNCHANGED <<history, aggregatedGroups, effectPending, walked, text, trend, v1, v2,
                   cmp, failed, entityType, selected, loadPending>>
    /\ UNCHANGED <<patch, converted>>

-----------------------------------------------------------------------------
(* Specifications                                                          *)

\* The aggregation effect on every history of at most MaxEntries releases: the
\* state after setHistory(h), with the effect scheduled.
Init ==
    /\ history \in Histories
    /\ aggregatedGroups = <<>>
    /\ effectPending = TRUE
    /\ walked = <<>>
    /\ text = <<>>
    /\ trend = "none"
    /\ v1 = <<>>
    /\ v2 = <<>>
    /\ cmp = <<>>
    /\ failed = FALSE
    /\ entityType = "champion"
    /\ selected = Null
    /\ loading = FALSE
    /\ loadPending = FALSE
    /\ requests = <<>>
    /\ patch = <<>>
    /\ converted = <<>>

Next == AggregationEffect

Spec == Init /\ [][Next]_vars

\* compareVersions on every pair of release identifiers, and the effect on the
\* history of the two releases v1 (patch notes "X: 1 -> 2") and v2 ("X: 2 -> 3").
InitVersions ==
    /\ v1 \in VersionStrings
    /\ v2 \in VersionStrings
    /\ cmp = <<>>
    /\ history = <<Entry(v1, <<Block("Q", Null, <<L_X12>>)>>),
                   Entry(v2, <<Block("Q", Null, <<L_X23>>)>>)>>
    /\ aggregatedGroups = <<>>
    /\ effectPending = TRUE
    /\ walked = <<>>
    /\ text = <<>>
    /\ trend = "none"
    /\ failed = FALSE
    /\ entityType = "champion"
    /\ selected = Null
    /\ loading = FALSE
    /\ loadPending = FALSE
    /\ requests = <<>>
    /\ patch = <<>>
    /\ converted = <<>>

NextVersions == Compare \/ AggregationEffect

SpecVersions == InitVersions /\ [][NextVersions]_vars

\* analyzeChangeTrend on every line of TrendTexts.
InitTrend ==
    /\ text \in TrendTexts
    /\ trend = "none"
    /\ history = <<>>
    /\ aggregatedGroups = <<>>
    /\ effectPending = FALSE
    /\ walked = <<>>
    /\ v1 = <<>>
    /\ v2 = <<>>
    /\ cmp = <<>>
    /\ failed = FALSE
    /\ entityType = "champion"
    /\ selected = Null
    /\ loading = FALSE
    /\ loadPending = FALSE
    /\ requests = <<>>
    /\ patch = <<>>
    /\ converted = <<>>

NextTrend == Classify

SpecTrend == InitTrend /\ [][NextTrend]_vars

\* The effect and analyzeChangeTrend on histories and lines with absent parts.
InitRobust ==
    /\ history \in RobustHistories
    /\ text \in RobustTexts
    /\ aggregatedGroups = <<>>
    /\ effectPending = TRUE
    /\ walked = <<>>
    /\ trend = "none"
    /\ v1 = <<>>
    /\ v2 = <<>>
    /\ cmp = <<>>
    /\ failed = FALSE
    /\ entityType = "champion"
    /\ selected = Null
    /\ loading = FALSE
    /\ loadPending = FALSE
    /\ requests = <<>>
    /\ patch = <<>>
    /\ converted = <<>>

NextRobust == AggregationEffect \/ Classify

SpecRobust == InitRobust /\ [][NextRobust]_vars

\* mapPatchVersion on every string of PatchStrings.
InitPatch ==
    /\ patch \in PatchStrings
    /\ converted = <<>>
    /\ history = <<>>
    /\ aggregatedGroups = <<>>
    /\ effectPending = FALSE
    /\ walked = <<>>
    /\ text = <<>>
    /\ trend = "none"
    /\ v1 = <<>>
    /\ v2 = <<>>
    /\ cmp = <<>>
    /\ failed = FALSE
    /\ entityType = "champion"
    /\ selected = Null
    /\ loading = FALSE
    /\ loadPending = FALSE
    /\ requests = <<>>

NextPatch == MapPatch

SpecPatch == InitPatch /\ [][NextPatch]_vars

\* The history view from its first render on: both effects are scheduled.
InitView ==
    /\ history = <<>>
    /\ aggregatedGroups = <<>>
    /\ effectPending = TRUE
    /\ walked = <<>>
    /\ text = <<>>
    /\ trend = "none"
    /\ v1 = <<>>
    /\ v2 = <<>>
    /\ cmp = <<>>
    /\ failed = FALSE
    /\ entityType = "champion"
    /\ selected = Null
    /\ loading = FALSE
    /\ loadPending = TRUE
    /\ requests = <<>>
    /\ patch = <<>>
    /\ converted = <<>>

NextView ==
    \/ \E n \in EntityNames : SelectEntity(n)
    \/ \E t \in EntityTypes : TabClick(t)
    \/ LoadEffect
    \/ \E i \in 1..Len(requests) : RequestResolved(i)
    \/ \E i \in 1..Len(requests) : RequestRejected(i)
    \/ AggregationEffect

SpecView == InitView /\ [][NextView]_vars

-----------------------------------------------------------------------------
(* Vocabulary of the properties                                            *)

\* the effect has run on a non-empty history
Done == ~effectPending /\ Len(history) > 0

Arrow == <<" ", "u2192", " ">>

ColonSpace == <<":", " ">>

MinOf(S) == CHOOSE x \in S : \A y \in S : x <= y

MaxOf(S) == CHOOSE x \in S : \A y \in S : x >= y

\* the keys of the groups the walk met
GroupKeys ==
    UNION {{GroupKey(walked[i].details[j]) : j \in 1..Len(walked[i].details)} :
             i \in 1..Len(walked)}

\* the change lines of the blocks of key K, in the order of the walk
RECURSIVE LinesInBlocks(_, _, _)
LinesInBlocks(details, K, j) ==
    IF j > Len(details) THEN <<>>
    ELSE (IF GroupKey(details[j]) = K THEN details[j].changes ELSE <<>>)
           \o LinesInBlocks(details, K, j + 1)

RECURSIVE LinesInWalk(_, _)
LinesInWalk(K, i) ==
    IF i > Len(walked) THEN <<>>
    ELSE LinesInBlocks(walked[i].details, K, 1) \o LinesInWalk(K, i + 1)

GroupLines(K) == LinesInWalk(K, 1)

\* the positions of the summary that hold the group titled K
EmittedAt(K) == {g \in 1..Len(aggregatedGroups) : aggregatedGroups[g].title = K}

\* the stat name the pattern finds in a matching line
StatNameOf(line) == trim(statMatch(line).name)

\* the positions of ls that match the stat pattern, and those that do not
Matching(ls) == {i \in 1..Len(ls) : statMatch(ls[i]).ok}

Passthrough(ls) == {i \in 1..Len(ls) : ~statMatch(ls[i]).ok}

StartsWith(s, prefix) == Len(s) >= Len(prefix) /\ SubSeq(s, 1, Len(prefix)) = prefix

\* releases i of the walk in which line l occurs in a block of key K
ReleasesWith(K, l) ==
    {i \in 1..Len(walked) :
       \E k \in 1..Len(LinesInBlocks(walked[i].details, K, 1)) :
          LinesInBlocks(walked[i].details, K, 1)[k] = l}

-----------------------------------------------------------------------------
(* Properties of the aggregation                                           *)

\* C1: chain collapsing.  Within one group, after the lines were processed in
\* the order of the walk, every stat name has exactly one output line; it
\* starts at the old value of the first line seen for that name and ends at
\* the new value of the last one, whatever lies between them.
ChainCollapsing ==
    Done =>
      \A K \in GroupKeys :
        LET ls == GroupLines(K) IN
        \A i \in Matching(ls) :
          LET N == StatNameOf(ls[i])
              same == {j \in Matching(ls) : StatNameOf(ls[j]) = N}
              S == trim(statMatch(ls[MinOf(same)]).old)
              E == trim(statMatch(ls[MaxOf(same)]).new)
              expected == {N \o ColonSpace \o S \o Arrow \o E,
                           N \o <<" ">> \o S \o Arrow \o E}
          IN  /\ Cardinality(EmittedAt(K)) = 1
              /\ \A g \in EmittedAt(K) :
                   LET out == aggregatedGroups[g].changes IN
                   /\ Cardinality({k \in 1..Len(out) : out[k] \in expected}) = 1
                   /\ Cardinality({k \in Matching(out) : StatNameOf(out[k]) = N}) = 1

\* C1 witness: "X: 1 -> 2" in release 9.1 and "X: 2 -> 3" in release 10.1, given
\* newest first, became the one line "X: 1 -> 3".
ChainCollapsingWitness ==
    /\ Done
    /\ history = <<Entry(V_10_1, <<Block("Q", "i2", <<L_X23, L_new>>)>>),
                   Entry(V_9_1, <<Block("Q", "i1", <<L_X12>>)>>)>>
    /\ aggregatedGroups[1].changes[1] = <<"X", ":", " ", "1", " ", "u2192", " ", "3">>

\* the lines "X: a -> b" with a < b of a single-line history
SimpleStatNames == {<<"X">>, <<"A", " ", "B">>}

SimpleValues == {<<"1">>, <<"2">>, <<"3">>, <<"4">>}

SimpleChainLines ==
    {t[1] \o ColonSpace \o t[2] \o Arrow \o t[3] :
       t \in {u \in SimpleStatNames \X SimpleValues \X SimpleValues :
                DecLess(parseVal(u[2]), parseVal(u[3]))}}

\* C2 (as claimed): a history of one release with the single line "X: a -> b",
\* a < b and X not an inverse stat, yields exactly one group whose only change
\* line is the input text, and that line is classified up.
SingleLineRoundTrip ==
    (/\ Done
     /\ Len(history) = 1
     /\ Len(history[1].details) = 1
     /\ Len(history[1].details[1].changes) = 1
     /\ history[1].details[1].changes[1] \in SimpleChainLines)
    => /\ Len(aggregatedGroups) = 1
       /\ aggregatedGroups[1].changes = history[1].details[1].changes
       /\ analyzeChangeTrend(aggregatedGroups[1].changes[1]) = "up"

\* C8: passthrough dedup.  The output lines of a group that do not match the
\* stat pattern are the group's non-matching input lines, each once, in the
\* order of their first appearance.
PassthroughDedup ==
    Done =>
      \A K \in GroupKeys :
        LET ls == GroupLines(K)
            first(l) == MinOf({i \in 1..Len(ls) : ls[i] = l})
        IN  Passthrough(ls) # {} =>
              /\ Cardinality(EmittedAt(K)) = 1
              /\ \A g \in EmittedAt(K) :
                   LET out == aggregatedGroups[g].changes
                       P == Passthrough(out)
                   IN  /\ {out[k] : k \in P} = {ls[i] : i \in Passthrough(ls)}
                       /\ \A k1, k2 \in P :
                            /\ (out[k1] = out[k2]) => (k1 = k2)
                            /\ (k1 < k2) => (first(out[k1]) < first(out[k2]))

\* C8 witness: the line "new" stood in two releases of group Q, after "a:b" in
\* the older one, and the summary holds "a:b" and then a single "new".
PassthroughDedupWitness ==
    /\ Done
    /\ Cardinality(ReleasesWith("Q", L_new)) = 2
    /\ \E g \in EmittedAt("Q") :
         LET out == aggregatedGroups[g].changes IN
         /\ Cardinality({k \in 1..Len(out) : out[k] = L_new}) = 1
         /\ \E k1, k2 \in 1..Len(out) : k1 < k2 /\ out[k1] = L_ab /\ out[k2] = L_new

\* C9 (as claimed): every group of the summary has at least one non-empty
\* change line.
EmptyGroupElision ==
    Done =>
      \A g \in 1..Len(aggregatedGroups) :
        \E k \in 1..Len(aggregatedGroups[g].changes) :
          aggregatedGroups[g].changes[k] # <<>>

\* C10: no line is dropped.  Every input line that does not match the stat
\* pattern stands verbatim in the output of its group, and every line that
\* matches is represented by the chain line of its stat name.
NoLineDropped ==
    Done =>
      \A K \in GroupKeys :
        LET ls == GroupLines(K) IN
        \A i \in 1..Len(ls) :
          \E g \in EmittedAt(K) :
            LET out == aggregatedGroups[g].changes IN
            IF statMatch(ls[i]).ok
            THEN \E k \in 1..Len(out) :
                   \/ StartsWith(out[k], StatNameOf(ls[i]) \o ColonSpace)
                   \/ StartsWith(out[k], StatNameOf(ls[i]) \o <<" ">>)
            ELSE \E k \in 1..Len(out) : out[k] = ls[i]

\* C10 witness: a group whose only input line is the passthrough line "a:b"
\* next to a group with a chain line; both are in the summary.
NoLineDroppedWitness ==
    /\ Done
    /\ history = <<Entry(V_1, <<Block("W", "i2", <<L_X31>>),
                                Block("Q", Null, <<L_ab, L_new>>)>>),
                   Entry(V_1_0, <<Block("Q", Null, <<L_AC34, L_ab>>)>>)>>
    /\ Len(aggregatedGroups) = 2
    /\ aggregatedGroups[2].changes =
         <<<<"A", ":", " ", "C", ":", " ", "3", " ", "u2192", " ", "4">>, L_ab, L_new>>

-----------------------------------------------------------------------------
(* Properties of compareVersions                                           *)

\* a well-formed release identifier: every dot-separated segment is a
\* non-empty run of digits
WellFormed(v) ==
    LET segs == split(v, ".") IN
    \A i \in 1..Len(segs) :
      Len(segs[i]) > 0 /\ \A k \in 1..Len(segs[i]) : segs[i][k] \in Digits

\* segment i of a well-formed identifier as an integer, 0 when it is missing
RefSegment(v, i) ==
    LET segs == split(v, ".") IN
    IF i <= Len(segs) THEN DigitsValue(segs[i], 1, Len(segs[i])) ELSE 0

\* a is before b: at the first segment in which they differ, a's is smaller
RefLess(a, b) ==
    \E i \in 1..Max(Len(split(a, ".")), Len(split(b, "."))) :
      /\ RefSegment(a, i) < RefSegment(b, i)
      /\ \A j \in 1..(i - 1) : RefSegment(a, j) = RefSegment(b, j)

\* C3: version ordering.  On well-formed identifiers compareVersions compares
\* the segments as integers from left to right, a missing trailing segment
\* counting as 0, and the effect walks the releases in that ascending order
\* (the older release supplies the start of the chain, the newer one its end).
VersionOrdering ==
    (WellFormed(v1) /\ WellFormed(v2)) =>
      /\ (cmp # <<>>) =>
           /\ (cmp[1] < 0) <=> RefLess(v1, v2)
           /\ (cmp[1] > 0) <=> RefLess(v2, v1)
      /\ (~effectPending) =>
           /\ walked = IF RefLess(v2, v1) THEN <<history[2], history[1]>> ELSE history
           /\ Len(aggregatedGroups) = 1
           /\ aggregatedGroups[1].changes =
                IF RefLess(v2, v1)
                THEN <<<<"X", ":", " ", "2", " ", "u2192", " ", "2">>>>
                ELSE <<<<"X", ":", " ", "1", " ", "u2192", " ", "3">>>>

\* C3 witness: "10.1" was compared with "9.1" and found greater, and the effect
\* walked release 9.1 first although the history lists it second.
VersionOrderingWitness ==
    /\ v1 = V_10_1
    /\ v2 = V_9_1
    /\ cmp # <<>>
    /\ cmp[1] > 0
    /\ ~effectPending
    /\ walked[1].patch_version = V_9_1
    /\ history[1].patch_version = V_10_1

\* a malformed identifier: some dot-separated segment is not an integer (it is
\* empty or holds a character that is no digit, sign or white space)
Malformed(v) ==
    LET segs == split(v, ".") IN
    \E i \in 1..Len(segs) :
      \/ Len(segs[i]) = 0
      \/ \E k \in 1..Len(segs[i]) : segs[i][k] \notin (Digits \cup WhiteSpace \cup {"-", "+"})

\* C4 (as claimed): a malformed identifier is ordered exactly as version 0: it
\* compares equal to "0" and is never walked after a well-formed version
\* greater than 0.
MalformedIsZero ==
    Malformed(v1) =>
      /\ (cmp # <<>> /\ v2 = V_0) => cmp[1] = 0
      /\ (~effectPending /\ WellFormed(v2) /\ RefLess(V_0, v2)) => walked = history

-----------------------------------------------------------------------------
(* Properties of analyzeChangeTrend                                        *)

P_noLonger == <<"n", "o", " ", "l", "o", "n", "g", "e", "r">>

\* the line holds the "no longer reduced" exception, in any letter case
HasException(t) ==
    \/ includes(toLowerCase(t), W_noLongerReduced)
    \/ includes(toLowerCase(t), W_bolsheNeUmenshaetsya)

\* the line holds a removal keyword, in any letter case
HasRemovedKeyword(t) ==
    includes(toLowerCase(t), W_removed) \/ includes(toLowerCase(t), W_udaleno)

\* the line holds a "no longer <X>" phrase, English or Russian
HasNoLonger(t) ==
    includes(toLowerCase(t), P_noLonger) \/ includes(toLowerCase(t), W_bolsheNe)

\* the line holds inverse-stat vocabulary: cooldown, cost, mana, energy, time
\* or a Russian equivalent
InverseVocabulary(t) ==
    \E w \in {W_cooldown, W_cost, W_mana, W_energy, W_time, W_perezaryadka,
              W_stoimost, W_many, W_energii, W_zatraty, W_vremya} :
      includes(toLowerCase(t), w)

\* C5: inverse classification.  A line without a removal phrase that splits on
\* an arrow into exactly two parts with numeric sums L and R is up when R > L
\* and down when R < L, and the opposite when it holds inverse-stat vocabulary.
InverseClassification ==
    LET ps == parts(text) IN
    (/\ trend # "none"
     /\ ~HasRemovedKeyword(text)
     /\ ~HasNoLonger(text)
     /\ Len(ps) = 2
     /\ ~isNaN(parseVal(ps[1]))
     /\ ~isNaN(parseVal(ps[2])))
    => LET L == parseVal(ps[1])
           R == parseVal(ps[2])
       IN  /\ DecLess(L, R) => trend = (IF InverseVocabulary(text) THEN "down" ELSE "up")
           /\ DecLess(R, L) => trend = (IF InverseVocabulary(text) THEN "up" ELSE "down")

\* C5 witness: "Cooldown: 10 -> 8" was classified up.
InverseClassificationWitness ==
    /\ text = <<"C", "o", "o", "l", "d", "o", "w", "n", ":", " ", "1", "0", " ", "u2192",
                " ", "8">>
    /\ trend = "up"

\* C6 (as claimed): every line that holds the "no longer reduced" exception is
\* classified up, also when it holds a removal keyword such as "removed".
ExceptionAlwaysUp ==
    (trend # "none" /\ HasException(text)) => trend = "up"

\* C6 (amended): a line that holds the exception is classified up unless it
\* also holds "removed" or its Russian equivalent, and then it is classified
\* down: the exception wins over the "no longer" removal phrase only.
ExceptionUpUnlessRemoved ==
    (trend # "none" /\ HasException(text)) =>
      trend = (IF HasRemovedKeyword(text) THEN "down" ELSE "up")

\* C6 witness: the Russian exception phrase, which holds the removal phrase
\* "no longer" of the same language, in front of a numeric decrease was
\* classified up.
ExceptionUpWitness ==
    /\ text = <<"D", "a", "m", "a", "g", "e", " ",
                "u0431", "u043E", "u043B", "u044C", "u0448", "u0435", " ", "u043D", "u0435",
                " ", "u0443", "u043C", "u0435", "u043D", "u044C", "u0448", "u0430", "u0435",
                "u0442", "u0441", "u044F",
                ":", " ", "1", "0", " ", "u2192", " ", "8">>
    /\ trend = "up"

\* C7 (as claimed): a line that holds "removed" (or its Russian equivalent), or
\* a "no longer <X>" phrase, English or Russian, that is not the exception, is
\* classified down.
RemovalPriority ==
    (/\ trend # "none"
     /\ \/ HasRemovedKeyword(text)
        \/ HasNoLonger(text) /\ ~HasException(text))
    => trend = "down"

-----------------------------------------------------------------------------
(* Properties of the groups                                                *)

\* the icons of the blocks of key K, in the order of the walk
RECURSIVE IconsInBlocks(_, _, _)
IconsInBlocks(details, K, j) ==
    IF j > Len(details) THEN <<>>
    ELSE (IF GroupKey(details[j]) = K THEN <<details[j].icon_url>> ELSE <<>>)
           \o IconsInBlocks(details, K, j + 1)

RECURSIVE IconsInWalk(_, _)
IconsInWalk(K, i) ==
    IF i > Len(walked) THEN <<>>
    ELSE IconsInBlocks(walked[i].details, K, 1) \o IconsInWalk(K, i + 1)

\* the first non-null icon the walk meets for key K, null when there is none
FirstIcon(K) ==
    LET icons == SelectSeq(IconsInWalk(K, 1), LAMBDA x : x # Null)
    IN  IF icons = <<>> THEN Null ELSE icons[1]

\* C11 (as claimed): icon retention.  The icon of an emitted group is the icon
\* of the first block of the walk that supplies a non-null icon for its key;
\* an earlier block of that key with a null icon does not keep the later icon
\* from being recorded.
IconRetention ==
    Done =>
      \A g \in 1..Len(aggregatedGroups) :
        aggregatedGroups[g].icon = FirstIcon(aggregatedGroups[g].title)

\* the keys of the blocks in the order of the walk
RECURSIVE KeysFrom(_)
KeysFrom(i) ==
    IF i > Len(walked) THEN <<>>
    ELSE [j \in 1..Len(walked[i].details) |-> GroupKey(walked[i].details[j])]
           \o KeysFrom(i + 1)

KeysInWalk == KeysFrom(1)

\* the position of the walk at which key K is met first
FirstSeen(K) == MinOf({p \in 1..Len(KeysInWalk) : KeysInWalk[p] = K})

\* C12: group order.  Every emitted group carries a key of the walk, and the
\* groups stand in the order in which the walk, oldest release first and
\* block by block within a release, meets their keys for the first time.
GroupOrder ==
    Done =>
      /\ \A g \in 1..Len(aggregatedGroups) : aggregatedGroups[g].title \in GroupKeys
      /\ \A g, g2 \in 1..Len(aggregatedGroups) :
           g < g2 => FirstSeen(aggregatedGroups[g].title)
                       < FirstSeen(aggregatedGroups[g2].title)

\* C12 witness: release 10.1 with the blocks W, Q was given before release 9.1
\* with the block Q; the walk met Q first and the summary lists Q, then W.
GroupOrderWitness ==
    /\ Done
    /\ history = <<Entry(V_10_1, <<Block("W", "i2", <<L_X31>>),
                                   Block("Q", Null, <<L_ab, L_new>>)>>),
                   Entry(V_9_1, <<Block("Q", "i1", <<L_X12>>)>>)>>
    /\ Len(aggregatedGroups) = 2
    /\ aggregatedGroups[1].title = "Q"
    /\ aggregatedGroups[2].title = "W"

TrendTags == {"up", "down", "neutral"}

\* C13: the engine never fails.  On every history, also one with details or
\* changes null, without blocks or lines, with empty and non-numeric lines and
\* with release identifiers that hold no number, the effect raises nothing
\* and stores groups that each have a change line, and analyzeChangeTrend
\* returns a tag for every line it is given and for every line of the groups.
EngineNeverFails ==
    /\ ~failed
    /\ trend # "none" => trend \in TrendTags
    /\ Done =>
         /\ aggregatedGroups = aggregate(history)
         /\ \A g \in 1..Len(aggregatedGroups) :
              /\ Len(aggregatedGroups[g].changes) > 0
              /\ \A k \in 1..Len(aggregatedGroups[g].changes) :
                   analyzeChangeTrend(aggregatedGroups[g].changes[k]) \in TrendTags

\* C13 witness: the effect ran on a release "" with details null and a release
\* "abc" with a block whose changes are null and a block without lines, and
\* stored the one group Q; the line that is only an arrow got a tag.
EngineNeverFailsWitness ==
    /\ ~effectPending
    /\ ~failed
    /\ history = <<Entry(<<>>, NullDetails),
                   Entry(<<"a", "b", "c">>,
                         <<Block("Q", Null, <<L_X12>>), Block("Q", "i1", NullChanges),
                           Block("W", Null, <<>>)>>)>>
    /\ Len(aggregatedGroups) = 1
    /\ aggregatedGroups[1].changes = <<L_X12>>
    /\ text = <<"u2192">>
    /\ trend = "neutral"

\* the change lines of the blocks without a title (null or empty), in the
\* order of the walk
RECURSIVE UntitledInBlocks(_, _)
UntitledInBlocks(details, j) ==
    IF j > Len(details) THEN <<>>
    ELSE (IF details[j].title \in {Null, ""} THEN details[j].changes ELSE <<>>)
           \o UntitledInBlocks(details, j + 1)

RECURSIVE UntitledInWalk(_)
UntitledInWalk(i) ==
    IF i > Len(walked) THEN <<>>
    ELSE UntitledInBlocks(walked[i].details, 1) \o UntitledInWalk(i + 1)

\* C22: default grouping.  Every emitted group has a title that is neither
\* null nor empty, and the lines of all blocks without a title, whatever
\* their releases, are merged and chained in the one group of the default
\* title.
DefaultGrouping ==
    Done =>
      /\ \A g \in 1..Len(aggregatedGroups) : aggregatedGroups[g].title \notin {Null, ""}
      /\ UntitledInWalk(1) # <<>> =>
           /\ Cardinality(EmittedAt(DefaultTitle)) = 1
           /\ \A g \in EmittedAt(DefaultTitle) :
                aggregatedGroups[g].changes = computedChanges(UntitledInWalk(1))

\* C22 witness: release 1 has a block of title null with "X: 1 -> 2" and
\* "a:b", release 10.1 a block of title "" with "X 1:2 -> 4"; the summary is
\* the one default group with the chain "X: 1 -> 4" and "a:b".
DefaultGroupingWitness ==
    /\ Done
    /\ history = <<Entry(V_10_1, <<Block("", "i1", <<L_Xr4>>)>>),
                   Entry(V_1, <<Block(Null, Null, <<L_X12, L_ab>>)>>)>>
    /\ Len(aggregatedGroups) = 1
    /\ aggregatedGroups[1].title = DefaultTitle
    /\ aggregatedGroups[1].changes =
         <<<<"X", ":", " ", "1", " ", "u2192", " ", "4">>, L_ab>>

\* C23: the aggregation does not modify its input.  A run of the effect
\* leaves the history what it was: the same entries in the same order, with
\* the same blocks and lines (the sort reorders a copy).
InputNotModified ==
    [][(effectPending /\ ~effectPending') => history' = history]_vars

\* C23 witness: the effect ran on releases given newest first and walked them
\* oldest first, and the history still holds them newest first.
InputNotModifiedWitness ==
    /\ Done
    /\ history = <<Entry(V_10_1, <<Block("Q", "i2", <<L_X23, L_new>>)>>),
                   Entry(V_9_1, <<Block("Q", Null, <<L_new, L_X31>>)>>)>>
    /\ walked = <<history[2], history[1]>>

\* C24: order independence.  When the release identifiers of the two entries
\* of the history do not compare equal, the summary is also the summary of
\* the history with its entries in the other order.
OrderIndependence ==
    (~effectPending /\ Len(history) = 2
       /\ compareVersions(history[1].patch_version, history[2].patch_version) # 0)
    => aggregatedGroups = aggregate(<<history[2], history[1]>>)

\* C24 witness: release 10.1 ("X: 1 -> 2") was given before release 9.1
\* ("X: 2 -> 3"); the summary is "X: 2 -> 2", that of the other order.
OrderIndependenceWitness ==
    /\ ~effectPending
    /\ v1 = V_10_1
    /\ v2 = V_9_1
    /\ history[1].patch_version = V_10_1
    /\ aggregatedGroups[1].changes = <<<<"X", ":", " ", "2", " ", "u2192", " ", "2">>>>
    /\ aggregatedGroups = aggregate(<<history[2], history[1]>>)

\* C25: ties in version order keep input order.  The entries whose release
\* identifiers compare equal to that of an entry are walked in the order in
\* which the input holds them.
TiesKeepInputOrder ==
    Done =>
      \A n \in 1..Len(history) :
        LET tie(x) == compareVersions(x.patch_version, history[n].patch_version) = 0
        IN  SelectSeq(walked, tie) = SelectSeq(history, tie)

\* C25 witness: release "1.0" ("X: 2 -> 3") was given before release "1"
\* ("X: 1 -> 2"); they compare equal, were walked in that order, and the chain
\* is "X: 2 -> 2": the start of the earlier entry and the end of the later one.
TiesKeepInputOrderWitness ==
    /\ Done
    /\ history = <<Entry(V_1_0, <<Block("Q", "i2", <<L_X23, L_new>>)>>),
                   Entry(V_1, <<Block("Q", "i1", <<L_X12>>)>>)>>
    /\ compareVersions(V_1_0, V_1) = 0
    /\ walked = history
    /\ aggregatedGroups[1].changes[1] = <<"X", ":", " ", "2", " ", "u2192", " ", "2">>

-----------------------------------------------------------------------------
(* Properties of the chains                                                *)

\* the position of the first arrow of line l at or after a, 0 when there is none
RECURSIVE FirstArrowFrom(_, _)
FirstArrowFrom(l, a) ==
    IF a > Len(l) THEN 0
    ELSE IF ArrowLenAt(l, a) > 0 THEN a
    ELSE FirstArrowFrom(l, a + 1)

\* the position of the first colon of l that white space follows, 0 when none
FirstColonSpace(l) ==
    LET S == {p \in 1..(Len(l) - 1) : l[p] = ":" /\ l[p + 1] \in WhiteSpace}
    IN  IF S = {} THEN 0 ELSE MinOf(S)

\* the line reads "<name>: <old> <arrow> <new>"
ColonStyle(l) ==
    FirstColonSpace(l) > 1 /\ FirstColonSpace(l) < FirstArrowFrom(l, 1)

\* A matching line as a reader takes it apart: the stat name is the text in
\* front of the separator that precedes the old value, all of it when the
\* separator is a colon.
FullName(l) ==
    IF ColonStyle(l) THEN trim(SubSeq(l, 1, FirstColonSpace(l) - 1)) ELSE StatNameOf(l)

FullOld(l) ==
    IF ColonStyle(l)
    THEN trim(SubSeq(l, FirstColonSpace(l) + 1, FirstArrowFrom(l, 1) - 1))
    ELSE trim(statMatch(l).old)

FullNew(l) ==
    LET a == FirstArrowFrom(l, 1) IN trim(SubSeq(l, a + ArrowLenAt(l, a), Len(l)))

\* C16 (as claimed): lines are merged into one chain only when their stat
\* names, the text in front of the separator that precedes the old value, are
\* identical.  Every stat name of a group has its own output line, from the
\* old value of the first line of that name to the new value of the last;
\* "A B: 1 -> 2" and "A C: 3 -> 4" yield two lines.
NameSeparatesChains ==
    Done =>
      \A K \in GroupKeys :
        LET ls == GroupLines(K) IN
        \A i \in Matching(ls) :
          LET N == FullName(ls[i])
              same == {j \in Matching(ls) : FullName(ls[j]) = N}
              S == FullOld(ls[MinOf(same)])
              E == FullNew(ls[MaxOf(same)])
              expected == {N \o ColonSpace \o S \o Arrow \o E,
                           N \o <<" ">> \o S \o Arrow \o E}
          IN  \A g \in EmittedAt(K) :
                LET out == aggregatedGroups[g].changes IN
                Cardinality({k \in 1..Len(out) : out[k] \in expected}) = 1

\* the tag of a line whose only numbers are those of its old value S and its
\* new value E, on a stat that is not inverse
NetTag(S, E) ==
    IF DecLess(parseVal(S), parseVal(E)) THEN "up"
    ELSE IF DecLess(parseVal(E), parseVal(S)) THEN "down"
    ELSE "neutral"

\* C19: the trend of a merged chain is that of its net transition.  The line
\* the summary shows for a stat name (not an inverse stat, no number in the
\* name) is classified by the old value of the first line of the chain against
\* the new value of the last one, whatever the steps between them were.
NetTrend ==
    Done =>
      \A K \in GroupKeys :
        LET ls == GroupLines(K) IN
        \A i \in Matching(ls) :
          LET N == StatNameOf(ls[i])
              same == {j \in Matching(ls) : StatNameOf(ls[j]) = N}
              S == trim(statMatch(ls[MinOf(same)]).old)
              E == trim(statMatch(ls[MaxOf(same)]).new)
          IN  (/\ isNaN(parseVal(N)) /\ ~InverseVocabulary(N)
               /\ ~isNaN(parseVal(S)) /\ ~isNaN(parseVal(E)))
              => \A g \in EmittedAt(K) :
                   LET out == aggregatedGroups[g].changes
                       shown == {k \in Matching(out) : StatNameOf(out[k]) = N}
                   IN  /\ shown # {}
                       /\ \A k \in shown : analyzeChangeTrend(out[k]) = NetTag(S, E)

\* C19 witness: "X 3 => 1" in release 9.1 and "X: 1 -> 2" in release 10.1
\* became "X 3 -> 2", which is classified down although the last step is up.
NetTrendWitness ==
    /\ Done
    /\ history = <<Entry(V_9_1, <<Block("Q", Null, <<L_new, L_X31>>)>>),
                   Entry(V_10_1, <<Block("Q", "i1", <<L_X12>>)>>)>>
    /\ aggregatedGroups[1].changes[1] = <<"X", " ", "3", " ", "u2192", " ", "2">>
    /\ analyzeChangeTrend(aggregatedGroups[1].changes[1]) = "down"
    /\ analyzeChangeTrend(L_X12) = "up"

\* C20 (as claimed): separator style.  The line of a chain has ": " between
\* the stat name and the start value exactly when the first line seen for
\* that name has a colon between the stat name and the old value, and a
\* single space otherwise; a colon elsewhere in that line does not matter.
SeparatorStyle ==
    Done =>
      \A K \in GroupKeys :
        LET ls == GroupLines(K) IN
        \A i \in {j \in Matching(ls) : FullName(ls[j]) = StatNameOf(ls[j])} :
          LET N == StatNameOf(ls[i])
              same == {j \in Matching(ls) : StatNameOf(ls[j]) = N}
              first == ls[MinOf(same)]
              colon == first[Len(statMatch(first).name) + 1] = ":"
              S == trim(statMatch(first).old)
              E == trim(statMatch(ls[MaxOf(same)]).new)
              expected == N \o (IF colon THEN ColonSpace ELSE <<" ">>) \o S \o Arrow \o E
          IN  \A g \in EmittedAt(K) :
                LET out == aggregatedGroups[g].changes IN
                \E k \in 1..Len(out) : out[k] = expected

\* C21: chains are per group.  The lines of a group are those of the chains
\* and the passthrough list built from the lines of that group alone; lines
\* of other groups change nothing in it, so a stat name under two titles has
\* one line in each group, each from the values of its own group.
ChainsPerGroup ==
    Done =>
      \A K \in GroupKeys :
        /\ Cardinality(EmittedAt(K)) <= 1
        /\ \A g \in EmittedAt(K) :
             aggregatedGroups[g].changes = computedChanges(GroupLines(K))

\* C21 witness: the stat X stands under W ("X 3 => 1") and under Q
\* ("X: 2 -> 3"); the summary has "X 3 -> 1" in W and "X: 2 -> 3" in Q.
ChainsPerGroupWitness ==
    /\ Done
    /\ history = <<Entry(V_1, <<Block("W", "i2", <<L_X31>>),
                                Block("Q", Null, <<L_ab, L_new>>)>>),
                   Entry(V_1_0, <<Block("Q", "i2", <<L_X23, L_new>>)>>)>>
    /\ Len(aggregatedGroups) = 2
    /\ aggregatedGroups[1].title = "W"
    /\ aggregatedGroups[1].changes = <<<<"X", " ", "3", " ", "u2192", " ", "1">>>>
    /\ aggregatedGroups[2].title = "Q"
    /\ aggregatedGroups[2].changes[1] = <<"X", ":", " ", "2", " ", "u2192", " ", "3">>

\* C26: output layout of a group.  With n stat names among the lines of the
\* group, the first n lines of the emitted group are the chain lines, in the
\* order in which their stat names were first seen, and the lines after them
\* are passthrough lines of the group, however the input interleaved them.
OutputLayout ==
    Done =>
      \A K \in GroupKeys :
        \A g \in EmittedAt(K) :
          LET ls == GroupLines(K)
              out == aggregatedGroups[g].changes
              names == {StatNameOf(ls[i]) : i \in Matching(ls)}
              n == Cardinality(names)
              FirstPos(N) == MinOf({j \in Matching(ls) : StatNameOf(ls[j]) = N})
          IN  /\ n <= Len(out)
              /\ \A k \in 1..n : statMatch(out[k]).ok /\ StatNameOf(out[k]) \in names
              /\ \A k, k2 \in 1..n :
                   k < k2 => FirstPos(StatNameOf(out[k])) < FirstPos(StatNameOf(out[k2]))
              /\ \A k \in (n + 1)..Len(out) : \E j \in Passthrough(ls) : ls[j] = out[k]

\* C26 witness: the group Q got the lines "new", "X 3 => 1", "A C: 3 -> 4",
\* "a:b" in that order and shows the two chains, X before A, and then the two
\* passthrough lines.
OutputLayoutWitness ==
    /\ Done
    /\ history = <<Entry(V_9_1, <<Block("Q", Null, <<L_new, L_X31>>)>>),
                   Entry(V_10_1, <<Block("Q", Null, <<L_AC34, L_ab>>)>>)>>
    /\ aggregatedGroups[1].changes =
         <<<<"X", " ", "3", " ", "u2192", " ", "1">>,
           <<"A", ":", " ", "C", ":", " ", "3", " ", "u2192", " ", "4">>,
           L_new, L_ab>>

-----------------------------------------------------------------------------
(* Properties of the history view                                          *)

\* C14 (as claimed): the summary is a projection of the current history.  Once
\* the effect has run after a change of the history, also a change to the
\* empty history by a tab click or a deselection, the stored groups are
\* aggregate(history); no summary of an earlier history is retained.
SummaryIsProjection ==
    ~effectPending => aggregatedGroups = aggregate(history)

\* the history the backend returns for the selected entity
SelectedHistory == BackendHistory([type |-> entityType, name |-> selected])

\* C27 (as claimed): history requests are not confused across selections.
\* Once the request of the selected entity has resolved and the history holds
\* its result, the history still holds it when the last outstanding request,
\* that of an earlier selection, resolves: after all requests have settled
\* the history is that of the selected entity in either completion order.
RequestsNotConfused ==
    [][(/\ selected # Null
        /\ history = SelectedHistory
        /\ Len(requests) = 1
        /\ requests' = <<>>
        /\ effectPending')
       => history' = SelectedHistory]_vars

\* C28 (as claimed): the loading flag is true whenever a history request is
\* outstanding; the completion of an older request does not clear it while
\* a newer one is pending.
LoadingWhilePending ==
    Len(requests) > 0 => loading = TRUE

-----------------------------------------------------------------------------
(* Properties of the numeric path and the keyword scan                     *)

\* the line splits on an arrow into exactly two parts that both hold a number
NumericSplit(t) ==
    LET ps == parts(t) IN
    IF Len(ps) # 2 THEN FALSE
    ELSE ~isNaN(parseVal(ps[1])) /\ ~isNaN(parseVal(ps[2]))

\* C17 (as claimed): the keyword scan is consulted only when there is no
\* usable numeric split.  A line without a removal phrase that splits into
\* exactly two parts with numeric sums L and R is classified by L and R
\* alone, whatever keywords it holds: up when R > L, down when R < L (the
\* opposite on an inverse stat) and neutral when L = R.
NumericDecides ==
    (/\ trend # "none"
     /\ ~HasRemovedKeyword(text)
     /\ ~HasNoLonger(text)
     /\ NumericSplit(text))
    => LET L == parseVal(parts(text)[1])
           R == parseVal(parts(text)[2])
       IN  trend = (IF DecLess(L, R) THEN (IF InverseVocabulary(text) THEN "down" ELSE "up")
                    ELSE IF DecLess(R, L) THEN (IF InverseVocabulary(text) THEN "up" ELSE "down")
                    ELSE "neutral")

\* the tag the removal check and the keyword scan give a line, its numbers
\* left unread
KeywordTag(t) ==
    LET lower == toLowerCase(t) IN
    IF HasRemovedKeyword(t) \/ (includes(lower, W_bolsheNe) /\ ~HasException(t)) THEN "down"
    ELSE IF HasException(t) THEN "up"
    ELSE IF \E w \in {W_uvelichen, W_usilen, W_increased, W_buffed, W_newEffect,
                       W_novyiEffekt} : includes(lower, w) THEN "up"
    ELSE IF \E w \in {W_umenshen, W_oslablen, W_decreased, W_nerfed} : includes(lower, w)
    THEN "down"
    ELSE "neutral"

\* C18: a line with more than two arrow-separated segments, or with a side
\* that holds no number, never takes the numeric path: its tag is that of the
\* removal check and the keyword scan (an up keyword gives up, otherwise a
\* down keyword gives down, otherwise neutral), whatever numbers it holds.
KeywordPathOnly ==
    (trend # "none" /\ ~NumericSplit(text)) => trend = KeywordTag(text)

\* C18 witness: "Damage increased: 10 -> 8 -> 6" has three segments whose
\* numbers fall, and was classified up by its keyword.
KeywordPathOnlyWitness ==
    /\ text = <<"D", "a", "m", "a", "g", "e", " ", "i", "n", "c", "r", "e", "a", "s", "e",
                "d", ":", " ", "1", "0", " ", "u2192", " ", "8", " ", "u2192", " ", "6">>
    /\ Len(parts(text)) = 3
    /\ trend = "up"

-----------------------------------------------------------------------------
(* Properties of mapPatchVersion                                           *)

DecimalDigits == <<"0", "1", "2", "3", "4", "5", "6", "7", "8", "9">>

\* the value of the decimal digit c, 10 when c is no decimal digit
DecimalValue(c) ==
    IF \E d \in 0..9 : DecimalDigits[d + 1] = c
    THEN CHOOSE d \in 0..9 : DecimalDigits[d + 1] = c
    ELSE 10

\* a number below 100 in decimal, without a leading zero
TwoDigitDecimal(n) ==
    IF n < 10 THEN <<DecimalDigits[n + 1]>>
    ELSE <<DecimalDigits[(n \div 10) + 1], DecimalDigits[(n % 10) + 1]>>

\* the string starts "MM.mm"
StartsMajorMinor(p) ==
    /\ Len(p) >= 5
    /\ \A k \in {1, 2, 4, 5} : DecimalValue(p[k]) < 10
    /\ p[3] = "."

\* C29: mapPatchVersion turns a version that starts "MM.mm" into
\* "<max(0, MM - 10)>.<mm>.0", with the two minor digits as written and
\* without what follows them, and returns every other string unchanged.
PatchMapping ==
    converted # <<>> =>
      converted[1] =
        (IF StartsMajorMinor(patch)
         THEN LET MM == 10 * DecimalValue(patch[1]) + DecimalValue(patch[2])
              IN  TwoDigitDecimal(IF MM >= 10 THEN MM - 10 ELSE 0)
                    \o <<".", patch[4], patch[5], ".", "0">>
         ELSE patch)

\* C29 witness: "09.01.1" became "0.01.0": the major is floored at 0, the
\* minor keeps its leading zero and the tail ".1" is gone.
PatchMappingWitness ==
    /\ patch = <<"0", "9", ".", "0", "1", ".", "1">>
    /\ converted = <<<<"0", ".", "0", "1", ".", "0">>>>

=============================================================================
